---- MODULE Spec2Model ----
(***************************************************************************)
(* Model of two parts of rpgp:                                             *)
(*   - KeyDetails::sign (src/composed/key/shared.rs): the certifier that   *)
(*     turns a KeyDetails value and a signing key into a SignedKeyDetails; *)
(*   - PublicParams (src/crypto/public_key.rs): Serialize::to_writer and   *)
(*     the hand-written fmt::Debug implementation.                         *)
(* Option<T> is modelled as a sequence of length 0 (None) or 1 (Some).     *)
(***************************************************************************)
EXTENDS Naturals, Integers, Sequences, FiniteSets, TLC

VARIABLES
    details,            \* the KeyDetails value consumed by sign (self)
    key,                \* the signing key: algorithm, key_id, fingerprint
    pc,                 \* position inside KeyDetails::sign
    clock,              \* the last value chrono::Utc::now() returned
    users,              \* local `users` vector of sign
    collected,          \* the Vec being collected from the user_ids iterator
    idx,                \* next element of the iterator being consumed
    signed_attributes,  \* the Vec being collected from the user_attributes iterator
    attempts,           \* log of certification attempts: target and outcome
    result,             \* "running", "ok", "err" or "panic"
    output,             \* Option<SignedKeyDetails> handed to the caller
    params,             \* a PublicParams value
    ppc,                \* position of the PublicParams driver
    written,            \* bytes received by the writer of to_writer
    debug               \* Option of the structure emitted by fmt::Debug

vars == <<details, key, pc, clock, users, collected, idx, signed_attributes,
          attempts, result, output, params, ppc, written, debug>>

signVars == <<details, key, pc, clock, users, collected, idx,
              signed_attributes, attempts, result, output>>

paramVars == <<params, ppc, written, debug>>

(***************************************************************************)
(* Bounds of the model.                                                    *)
(***************************************************************************)
MaxUserIds == 2
MaxUserAttributes == 2
MaxClock == 1

None == <<>>
Some(x) == <<x>>

RECURSIVE SeqsUpTo(_, _)
SeqsUpTo(S, n) ==
    IF n = 0 THEN {<<>>}
    ELSE LET shorter == SeqsUpTo(S, n - 1)
         IN  shorter \cup {Append(s, x) : s \in {t \in shorter : Len(t) = n - 1}, x \in S}

(***************************************************************************)
(* Input domains.                                                          *)
(***************************************************************************)
UserIdValues == {"alice", "bob"}
UserAttributeValues == {"image1", "image2"}
KeyFlagsValues == {{"certify", "sign"}, {"encrypt_comms", "encrypt_storage", "authenticate"}}
SymmetricKeyAlgorithms == {"AES128", "AES256"}
HashAlgorithms == {"SHA256", "SHA512"}
PreferredSymmetricValues == {<<>>, <<"AES256", "AES128">>}
PreferredHashValues == {<<"SHA256">>, <<"SHA512", "SHA256">>}
PreferredCompressionValues == {<<"ZLIB", "ZIP">>}
RevocationKeyValues == {[class |-> 128, algorithm |-> "RSA", fingerprint |-> "fpR"]}
PublicKeyAlgorithms == {"RSA", "EdDSA"}
KeyIdValues == {None, Some("kid1")}
FingerprintValues == {"fp1"}

(***************************************************************************)
(* KeyDetails and the signing key.                                         *)
(***************************************************************************)
KeyDetails ==
    [primary_user_id : UserIdValues,
     user_ids : SeqsUpTo(UserIdValues, MaxUserIds),
     user_attributes : SeqsUpTo(UserAttributeValues, MaxUserAttributes),
     keyflags : KeyFlagsValues,
     preferred_symmetric_algorithms : PreferredSymmetricValues,
     preferred_hash_algorithms : PreferredHashValues,
     preferred_compression_algorithms : PreferredCompressionValues,
     revocation_key : {None} \cup {Some(r) : r \in RevocationKeyValues}]

SecretKeyTrait ==
    [algorithm : PublicKeyAlgorithms,
     key_id : KeyIdValues,
     fingerprint : FingerprintValues]

\* Bit of each key flag in the key-flags octet.
KeyFlagBit(f) ==
    CASE f = "certify" -> 1
      [] f = "sign" -> 2
      [] f = "encrypt_comms" -> 4
      [] f = "encrypt_storage" -> 8
      [] f = "split_key" -> 16
      [] f = "authenticate" -> 32
      [] f = "group_key" -> 128

RECURSIVE SumBits(_)
SumBits(S) ==
    IF S = {} THEN 0
    ELSE LET f == CHOOSE x \in S : TRUE
         IN  KeyFlagBit(f) + SumBits(S \ {f})

\* let keyflags: Vec<u8> = self.keyflags.into();
KeyFlagsIntoVec(kf) == <<SumBits(kf) % 256>>

Subpacket(tag, body) == [tag |-> tag, body |-> body]

\* PrimaryHashedSubpackets without the `if let Some(rkey)` push
PrimaryHashedSubpackets_NoRevocationKey(d, now) ==
    << Subpacket("IsPrimary", TRUE),
       Subpacket("SignatureCreationTime", now),
       Subpacket("KeyFlags", KeyFlagsIntoVec(d.keyflags)),
       Subpacket("PreferredSymmetricAlgorithms", d.preferred_symmetric_algorithms),
       Subpacket("PreferredHashAlgorithms", d.preferred_hash_algorithms),
       Subpacket("PreferredCompressionAlgorithms", d.preferred_compression_algorithms) >>

\* PrimaryHashedSubpackets with the IsPrimary entry left out of the vec!
PrimaryHashedSubpackets_NoIsPrimary(d, now) ==
    LET hashed_subpackets ==
            << Subpacket("SignatureCreationTime", now),
               Subpacket("KeyFlags", KeyFlagsIntoVec(d.keyflags)),
               Subpacket("PreferredSymmetricAlgorithms", d.preferred_symmetric_algorithms),
               Subpacket("PreferredHashAlgorithms", d.preferred_hash_algorithms),
               Subpacket("PreferredCompressionAlgorithms", d.preferred_compression_algorithms) >>
    IN  IF d.revocation_key # None
        THEN Append(hashed_subpackets, Subpacket("RevocationKey", d.revocation_key[1]))
        ELSE hashed_subpackets

\* hashed subpackets of the primary user id certification
PrimaryHashedSubpackets(d, now) ==
    LET hashed_subpackets ==
            << Subpacket("IsPrimary", TRUE),
               Subpacket("SignatureCreationTime", now),
               Subpacket("KeyFlags", KeyFlagsIntoVec(d.keyflags)),
               Subpacket("PreferredSymmetricAlgorithms", d.preferred_symmetric_algorithms),
               Subpacket("PreferredHashAlgorithms", d.preferred_hash_algorithms),
               Subpacket("PreferredCompressionAlgorithms", d.preferred_compression_algorithms) >>
    IN  IF d.revocation_key # None
        THEN Append(hashed_subpackets, Subpacket("RevocationKey", d.revocation_key[1]))
        ELSE hashed_subpackets

\* OtherHashedSubpackets copied from the primary block, revocation key included
OtherHashedSubpackets_WithRevocationKey(d, now) ==
    LET hashed_subpackets ==
            << Subpacket("SignatureCreationTime", now),
               Subpacket("KeyFlags", KeyFlagsIntoVec(d.keyflags)),
               Subpacket("PreferredSymmetricAlgorithms", d.preferred_symmetric_algorithms),
               Subpacket("PreferredHashAlgorithms", d.preferred_hash_algorithms),
               Subpacket("PreferredCompressionAlgorithms", d.preferred_compression_algorithms) >>
    IN  IF d.revocation_key # None
        THEN Append(hashed_subpackets, Subpacket("RevocationKey", d.revocation_key[1]))
        ELSE hashed_subpackets

\* hashed subpackets of the certification of an additional user id
OtherHashedSubpackets(d, now) ==
    << Subpacket("SignatureCreationTime", now),
       Subpacket("KeyFlags", KeyFlagsIntoVec(d.keyflags)),
       Subpacket("PreferredSymmetricAlgorithms", d.preferred_symmetric_algorithms),
       Subpacket("PreferredHashAlgorithms", d.preferred_hash_algorithms),
       Subpacket("PreferredCompressionAlgorithms", d.preferred_compression_algorithms) >>

\* UnhashedSubpackets without the IssuerFingerprint entry
UnhashedSubpackets_IssuerOnly(k) ==
    << Subpacket("Issuer", k.key_id[1]) >>

\* unhashed subpackets; only evaluated when key.key_id() is Some
UnhashedSubpackets(k) ==
    << Subpacket("Issuer", k.key_id[1]),
       Subpacket("IssuerFingerprint", k.fingerprint) >>

\* SignatureConfigBuilder::default().typ(..).pub_alg(..).hashed_subpackets(..)
\*     .unhashed_subpackets(..).build()
SignatureConfig(k, hashed) ==
    [typ |-> "CertGeneric",
     pub_alg |-> k.algorithm,
     hashed_subpackets |-> hashed,
     unhashed_subpackets |-> UnhashedSubpackets(k)]

\* config.sign_certificate(key, key_pw, id.tag(), &id) on success
sign_certificate(config, k, tag, id) ==
    [config |-> config, signer |-> k, tag |-> tag, over |-> id]

\* id.into_signed(sig)
into_signed(id, sig) == [id |-> id, signatures |-> <<sig>>]

\* UserAttribute::sign(key, key_pw) on success
UserAttributeSign(u, k, now) ==
    [attr |-> u,
     signatures |-> << sign_certificate(
         [typ |-> "CertGeneric",
          pub_alg |-> k.algorithm,
          hashed_subpackets |-> <<Subpacket("SignatureCreationTime", now)>>,
          unhashed_subpackets |-> UnhashedSubpackets(k)],
         k, "UserAttribute", u) >>]

SignedKeyDetails(us, attrs) ==
    [revocation_signatures |-> <<>>,
     direct_signatures |-> <<>>,
     users |-> us,
     user_attributes |-> attrs]

\* the values chrono::Utc::now() can return: the wall clock of the OS, which
\* keeps no order between two reads (it can be set back as well as forward)
Now == 0..MaxClock

\* outcomes of one certification: build() fails, sign_certificate fails, or
\* both succeed
Outcomes == {"ok", "build_err", "sign_err"}

\* one entry of the log of certification attempts
Attempt(target, outcome) == [target |-> target, outcome |-> outcome]

(***************************************************************************)
(* PublicParams: values, serialization and debug formatting.               *)
(***************************************************************************)
BigUintValues == {0, 1, 255, 256, 65536}
ECCCurves == {"Curve25519", "Ed25519", "P256"}
PointValues == {<<64, 1>>, <<4, 170, 187>>}

PublicParams ==
    [variant : {"RSA"}, n : BigUintValues, e : BigUintValues]
    \cup [variant : {"DSA"}, p : BigUintValues, q : BigUintValues,
          g : BigUintValues, y : BigUintValues]
    \cup [variant : {"ECDSA"}, curve : ECCCurves, p : PointValues]
    \cup [variant : {"ECDH"}, curve : ECCCurves, p : PointValues,
          hash : HashAlgorithms, alg_sym : SymmetricKeyAlgorithms]
    \cup [variant : {"Elgamal"}, p : BigUintValues, g : BigUintValues,
          y : BigUintValues]
    \cup [variant : {"EdDSA"}, curve : ECCCurves, q : PointValues]

\* `*hash as u8`: the discriminant of HashAlgorithm
HashAlgorithmAsU8(h) ==
    CASE h = "SHA256" -> 8
      [] h = "SHA512" -> 10

\* `*alg_sym as u8`: the discriminant of SymmetricKeyAlgorithm
SymmetricKeyAlgorithmAsU8(a) ==
    CASE a = "AES128" -> 7
      [] a = "AES256" -> 9

\* ECCCurve::oid()
oid(curve) ==
    CASE curve = "Curve25519" -> <<43, 6, 1, 4, 1, 151, 85, 1, 5, 1>>
      [] curve = "Ed25519" -> <<43, 6, 1, 4, 1, 218, 71, 15, 1>>
      [] curve = "P256" -> <<42, 134, 72, 206, 61, 3, 1, 7>>

\* BigUint::bits(): the number of significant bits
RECURSIVE bits(_)
bits(n) == IF n = 0 THEN 0 ELSE 1 + bits(n \div 2)

\* BigUint::to_bytes_be(): big-endian magnitude, zero is the single octet 0
RECURSIVE to_bytes_be(_)
to_bytes_be(n) ==
    IF n < 256 THEN <<n>> ELSE Append(to_bytes_be(n \div 256), n % 256)

\* a u16 written big-endian
U16BE(x) == <<(x % 65536) \div 256, x % 256>>

\* write_bignum_mpi: 2-octet bit length, then the magnitude without leading
\* zeros; zero has bit length 0 and no body
write_bignum_mpi(n) ==
    U16BE(bits(n)) \o (IF n = 0 THEN <<>> ELSE to_bytes_be(n))

\* bit length of an opaque octet string, leading zero bits of the first octet
\* not counted
bit_size(raw) ==
    IF raw = <<>> THEN 0 ELSE 8 * (Len(raw) - 1) + bits(raw[1])

\* write_mpi: 2-octet bit length, then the octets as they are
write_mpi(raw) == U16BE(bit_size(raw)) \o raw

\* to_writer with the DSA arm writing y before g
to_writer_DsaSwapped(v) ==
    CASE v.variant = "RSA" ->
            write_bignum_mpi(v.n) \o write_bignum_mpi(v.e)
      [] v.variant = "DSA" ->
            write_bignum_mpi(v.p) \o write_bignum_mpi(v.q)
                \o write_bignum_mpi(v.y) \o write_bignum_mpi(v.g)
      [] v.variant = "ECDSA" ->
            <<Len(oid(v.curve)) % 256>> \o oid(v.curve) \o write_mpi(v.p)
      [] v.variant = "ECDH" ->
            <<Len(oid(v.curve)) % 256>> \o oid(v.curve) \o write_mpi(v.p)
                \o <<3, 1, HashAlgorithmAsU8(v.hash), SymmetricKeyAlgorithmAsU8(v.alg_sym)>>
      [] v.variant = "Elgamal" ->
            write_bignum_mpi(v.p) \o write_bignum_mpi(v.g) \o write_bignum_mpi(v.y)
      [] v.variant = "EdDSA" ->
            <<Len(oid(v.curve)) % 256>> \o oid(v.curve) \o write_mpi(v.q)

\* to_writer with the ECDH arm writing the symmetric algorithm before the hash
to_writer_KdfSwapped(v) ==
    CASE v.variant = "RSA" ->
            write_bignum_mpi(v.n) \o write_bignum_mpi(v.e)
      [] v.variant = "DSA" ->
            write_bignum_mpi(v.p) \o write_bignum_mpi(v.q)
                \o write_bignum_mpi(v.g) \o write_bignum_mpi(v.y)
      [] v.variant = "ECDSA" ->
            <<Len(oid(v.curve)) % 256>> \o oid(v.curve) \o write_mpi(v.p)
      [] v.variant = "ECDH" ->
            <<Len(oid(v.curve)) % 256>> \o oid(v.curve) \o write_mpi(v.p)
                \o <<3, 1, SymmetricKeyAlgorithmAsU8(v.alg_sym), HashAlgorithmAsU8(v.hash)>>
      [] v.variant = "Elgamal" ->
            write_bignum_mpi(v.p) \o write_bignum_mpi(v.g) \o write_bignum_mpi(v.y)
      [] v.variant = "EdDSA" ->
            <<Len(oid(v.curve)) % 256>> \o oid(v.curve) \o write_mpi(v.q)

\* impl Serialize for PublicParams: the bytes handed to the writer
to_writer(v) ==
    CASE v.variant = "RSA" ->
            write_bignum_mpi(v.n) \o write_bignum_mpi(v.e)
      [] v.variant = "DSA" ->
            write_bignum_mpi(v.p) \o write_bignum_mpi(v.q)
                \o write_bignum_mpi(v.g) \o write_bignum_mpi(v.y)
      [] v.variant = "ECDSA" ->
            <<Len(oid(v.curve)) % 256>> \o oid(v.curve) \o write_mpi(v.p)
      [] v.variant = "ECDH" ->
            <<Len(oid(v.curve)) % 256>> \o oid(v.curve) \o write_mpi(v.p)
                \o <<3, 1, HashAlgorithmAsU8(v.hash), SymmetricKeyAlgorithmAsU8(v.alg_sym)>>
      [] v.variant = "Elgamal" ->
            write_bignum_mpi(v.p) \o write_bignum_mpi(v.g) \o write_bignum_mpi(v.y)
      [] v.variant = "EdDSA" ->
            <<Len(oid(v.curve)) % 256>> \o oid(v.curve) \o write_mpi(v.q)

\* the value of a big-endian magnitude
RECURSIVE from_bytes_be(_)
from_bytes_be(bytes) ==
    IF bytes = <<>> THEN 0
    ELSE 256 * from_bytes_be(SubSeq(bytes, 1, Len(bytes) - 1)) + bytes[Len(bytes)]

Malformed == <<-1>>

\* decoding of consecutive MPIs up to the end of the input: a 2-octet bit
\* length L, then (L+7)/8 octets whose first has exactly the leading zero
\* bits L allows; anything else is malformed
RECURSIVE read_mpis(_)
read_mpis(bytes) ==
    IF bytes = <<>> THEN <<>>
    ELSE IF Len(bytes) < 2 THEN Malformed
    ELSE LET L == 256 * bytes[1] + bytes[2]
             n == (L + 7) \div 8
         IN  IF Len(bytes) < 2 + n THEN Malformed
             ELSE IF n > 0 /\ bits(bytes[3]) # L - 8 * (n - 1) THEN Malformed
             ELSE LET rest == read_mpis(SubSeq(bytes, 3 + n, Len(bytes)))
                  IN  IF rest = Malformed THEN Malformed
                      ELSE <<from_bytes_be(SubSeq(bytes, 3, 2 + n))>> \o rest

HexDigit(d) ==
    <<"0", "1", "2", "3", "4", "5", "6", "7",
      "8", "9", "a", "b", "c", "d", "e", "f">>[d + 1]

\* hex::encode: two lowercase hex digits per octet
RECURSIVE hex_encode(_)
hex_encode(bytes) ==
    IF bytes = <<>> THEN ""
    ELSE HexDigit(Head(bytes) \div 16) \o HexDigit(Head(bytes) % 16)
             \o hex_encode(Tail(bytes))

\* one .field(label, value) call of the DebugStruct builder
field(label, value) == [label |-> label, value |-> value]

\* impl fmt::Debug for PublicParams: the struct name and the fields emitted
fmt(v) ==
    CASE v.variant = "RSA" ->
            [name |-> "PublicParams::RSA",
             fields |-> << field("n", hex_encode(to_bytes_be(v.n))),
                           field("e", hex_encode(to_bytes_be(v.e))) >>]
      [] v.variant = "DSA" ->
            [name |-> "PublicParams::DSA",
             fields |-> << field("p", hex_encode(to_bytes_be(v.p))),
                           field("q", hex_encode(to_bytes_be(v.q))),
                           field("g", hex_encode(to_bytes_be(v.y))),
                           field("y", hex_encode(to_bytes_be(v.g))) >>]
      [] v.variant = "ECDSA" ->
            [name |-> "PublicParams::ECDSA",
             fields |-> << field("curve", v.curve),
                           field("p", hex_encode(v.p)) >>]
      [] v.variant = "ECDH" ->
            [name |-> "PublicParams::ECDSA",
             fields |-> << field("curve", v.curve),
                           field("hash", v.hash),
                           field("alg_sym", v.alg_sym),
                           field("p", hex_encode(v.p)) >>]
      [] v.variant = "Elgamal" ->
            [name |-> "PublicParams::Elgamal",
             fields |-> << field("p", hex_encode(to_bytes_be(v.p))),
                           field("g", hex_encode(to_bytes_be(v.y))),
                           field("y", hex_encode(to_bytes_be(v.g))) >>]
      [] v.variant = "EdDSA" ->
            [name |-> "PublicParams::EdDSA",
             fields |-> << field("curve", v.curve),
                           field("q", hex_encode(v.q)) >>]

InitParamsIdle ==
    /\ params = None
    /\ ppc = "idle"
    /\ written = <<>>
    /\ debug = None

Init ==
    /\ details \in KeyDetails
    /\ key \in SecretKeyTrait
    /\ pc = "primary"
    /\ clock = 0
    /\ users = <<>>
    /\ collected = <<>>
    /\ idx = 1
    /\ signed_attributes = <<>>
    /\ attempts = <<>>
    /\ result = "running"
    /\ output = None
    /\ InitParamsIdle

\* the missing key id turned into an Err (ok_or(..)?) instead of a panic
expect_none_AsErr == "err"

\* How sign is left when key.key_id().expect("missing key id") meets None:
\* Option::expect panics
expect_none == "panic"

\* Abort handing the certifications built so far to the caller
Abort_Partial(how) ==
    /\ pc' = "done"
    /\ result' = how
    /\ output' = Some(SignedKeyDetails(users, signed_attributes))

\* Leaving sign with an error or by unwinding: nothing is handed to the caller.
Abort(how) ==
    /\ pc' = "done"
    /\ result' = how
    /\ output' = None

\* shared.rs lines 60-88: the certification of the primary user id
SignPrimary ==
    /\ pc = "primary"
    /\ \E now \in Now, outcome \in Outcomes :
        /\ clock' = now
        /\ IF key.key_id = None
           THEN \* expect("missing key id") panics while the builder arguments are evaluated
                /\ Abort(expect_none)
                /\ UNCHANGED <<users, attempts>>
           ELSE LET id == details.primary_user_id
                    config == SignatureConfig(key, PrimaryHashedSubpackets(details, now))
                    sig == sign_certificate(config, key, "UserId", id)
                IN  CASE outcome = "build_err" ->
                           /\ Abort("err")
                           /\ attempts' = Append(attempts, Attempt(id, "build_err"))
                           /\ UNCHANGED users
                      [] outcome = "sign_err" ->
                           /\ Abort("err")
                           /\ attempts' = Append(attempts, Attempt(id, "sign_err"))
                           /\ UNCHANGED users
                      [] outcome = "ok" ->
                           /\ users' = Append(users, into_signed(id, sig))
                           /\ attempts' = Append(attempts, Attempt(id, "ok"))
                           /\ pc' = "user_ids"
                           /\ UNCHANGED <<result, output>>
    /\ UNCHANGED <<details, key, collected, idx, signed_attributes>>
    /\ UNCHANGED paramVars

\* shared.rs lines 92-119: one step of the iterator over self.user_ids; the
\* closure certifies the next additional user id, collect stops at the first Err
SignUserId ==
    /\ pc = "user_ids"
    /\ idx <= Len(details.user_ids)
    /\ \E now \in Now, outcome \in Outcomes :
        /\ clock' = now
        /\ IF key.key_id = None
           THEN /\ Abort(expect_none)
                /\ UNCHANGED <<collected, idx, attempts>>
           ELSE LET id == details.user_ids[idx]
                    config == SignatureConfig(key, OtherHashedSubpackets(details, now))
                    sig == sign_certificate(config, key, "UserId", id)
                IN  CASE outcome = "build_err" ->
                           /\ Abort("err")
                           /\ attempts' = Append(attempts, Attempt(id, "build_err"))
                           /\ UNCHANGED <<collected, idx>>
                      [] outcome = "sign_err" ->
                           /\ Abort("err")
                           /\ attempts' = Append(attempts, Attempt(id, "sign_err"))
                           /\ UNCHANGED <<collected, idx>>
                      [] outcome = "ok" ->
                           /\ collected' = Append(collected, into_signed(id, sig))
                           /\ attempts' = Append(attempts, Attempt(id, "ok"))
                           /\ idx' = idx + 1
                           /\ UNCHANGED <<pc, result, output>>
    /\ UNCHANGED <<details, key, users, signed_attributes>>
    /\ UNCHANGED paramVars

\* ExtendUsers putting the additional user ids in front of the primary one
ExtendUsers_PrimaryLast ==
    /\ pc = "user_ids"
    /\ idx > Len(details.user_ids)
    /\ users' = collected \o users
    /\ pc' = "user_attributes"
    /\ idx' = 1
    /\ UNCHANGED <<details, key, clock, collected, signed_attributes, attempts,
                   result, output>>
    /\ UNCHANGED paramVars

\* shared.rs lines 92, 120-121: the iterator is exhausted, collect returns
\* Ok(vec) and users.extend appends it
ExtendUsers ==
    /\ pc = "user_ids"
    /\ idx > Len(details.user_ids)
    /\ users' = users \o collected
    /\ pc' = "user_attributes"
    /\ idx' = 1
    /\ UNCHANGED <<details, key, clock, collected, signed_attributes, attempts,
                   result, output>>
    /\ UNCHANGED paramVars

\* shared.rs lines 123-127: one step of the iterator over self.user_attributes
SignUserAttribute ==
    /\ pc = "user_attributes"
    /\ idx <= Len(details.user_attributes)
    /\ \E now \in Now, outcome \in {"ok", "sign_err"} :
        /\ clock' = now
        /\ LET u == details.user_attributes[idx]
           IN  CASE outcome = "sign_err" ->
                      /\ Abort("err")
                      /\ attempts' = Append(attempts, Attempt(u, "sign_err"))
                      /\ UNCHANGED <<signed_attributes, idx>>
                 [] outcome = "ok" ->
                      /\ signed_attributes' =
                             Append(signed_attributes, UserAttributeSign(u, key, now))
                      /\ attempts' = Append(attempts, Attempt(u, "ok"))
                      /\ idx' = idx + 1
                      /\ UNCHANGED <<pc, result, output>>
    /\ UNCHANGED <<details, key, users, collected>>
    /\ UNCHANGED paramVars

\* shared.rs lines 127-134: collect returns Ok(vec) and sign returns
\* Ok(SignedKeyDetails { .. })
Return ==
    /\ pc = "user_attributes"
    /\ idx > Len(details.user_attributes)
    /\ output' = Some(SignedKeyDetails(users, signed_attributes))
    /\ result' = "ok"
    /\ pc' = "done"
    /\ UNCHANGED <<details, key, clock, users, collected, idx, signed_attributes,
                   attempts>>
    /\ UNCHANGED paramVars

\* KeyDetails::sign, shared.rs lines 48-135
sign ==
    \/ SignPrimary
    \/ SignUserId
    \/ ExtendUsers
    \/ SignUserAttribute
    \/ Return

Next == sign

(***************************************************************************)
(* PublicParams driver: a value is serialized into an empty Vec<u8> and    *)
(* formatted with {:?}, in either order.  Writing to a Vec<u8> never fails.*)
(***************************************************************************)
InitSignIdle ==
    /\ details = None
    /\ key = None
    /\ pc = "idle"
    /\ clock = 0
    /\ users = <<>>
    /\ collected = <<>>
    /\ idx = 1
    /\ signed_attributes = <<>>
    /\ attempts = <<>>
    /\ result = "idle"
    /\ output = None

InitParams ==
    /\ InitSignIdle
    /\ params \in PublicParams
    /\ ppc = "new"
    /\ written = <<>>
    /\ debug = None

\* public_key.rs lines 84-150
Serialize ==
    /\ ppc = "new"
    /\ written' = written \o to_writer(params)
    /\ ppc' = "serialized"
    /\ UNCHANGED <<params, debug>>
    /\ UNCHANGED signVars

\* public_key.rs lines 152-207
DebugFmt ==
    /\ ppc \in {"new", "serialized"}
    /\ debug = None
    /\ debug' = Some(fmt(params))
    /\ UNCHANGED <<params, ppc, written>>
    /\ UNCHANGED signVars

NextParams == Serialize \/ DebugFmt

SpecParams == InitParams /\ [][NextParams]_vars

Spec == Init /\ [][Next]_vars

(***************************************************************************)
(* Properties of KeyDetails::sign, checked under Spec.                     *)
(***************************************************************************)
\* the certification of the i-th user of a SignedKeyDetails
Certification(skd, i) == skd.users[i].signatures[1]

Hashed(skd, i) == Certification(skd, i).config.hashed_subpackets

Unhashed(skd, i) == Certification(skd, i).config.unhashed_subpackets

Tags(subpackets) == [i \in 1..Len(subpackets) |-> subpackets[i].tag]

HasTag(subpackets, tag) == \E i \in 1..Len(subpackets) : subpackets[i].tag = tag

\* C1: when sign succeeds, the hashed subpackets of the primary user id
\* certification are exactly IsPrimary(true), SignatureCreationTime, KeyFlags,
\* PreferredSymmetricAlgorithms, PreferredHashAlgorithms,
\* PreferredCompressionAlgorithms in this order, followed by RevocationKey
\* with the KeyDetails revocation key iff the KeyDetails has one.
C1_PrimaryHashedSubpackets ==
    result = "ok" =>
        LET h == Hashed(output[1], 1)
        IN  /\ Len(h) = (IF details.revocation_key = None THEN 6 ELSE 7)
            /\ h[1].tag = "IsPrimary" /\ h[1].body = TRUE
            /\ h[2].tag = "SignatureCreationTime" /\ h[2].body \in 0..MaxClock
            /\ h[3].tag = "KeyFlags"
            /\ h[3].body = KeyFlagsIntoVec(details.keyflags)
            /\ h[4].tag = "PreferredSymmetricAlgorithms"
            /\ h[4].body = details.preferred_symmetric_algorithms
            /\ h[5].tag = "PreferredHashAlgorithms"
            /\ h[5].body = details.preferred_hash_algorithms
            /\ h[6].tag = "PreferredCompressionAlgorithms"
            /\ h[6].body = details.preferred_compression_algorithms
            /\ details.revocation_key # None =>
                   /\ h[7].tag = "RevocationKey"
                   /\ h[7].body = details.revocation_key[1]

C1_Witness ==
    /\ result = "ok"
    /\ details.revocation_key # None
    /\ Len(Hashed(output[1], 1)) = 7

\* C2: when sign succeeds, the certification of every additional user id
\* carries SignatureCreationTime, KeyFlags, PreferredSymmetricAlgorithms,
\* PreferredHashAlgorithms, PreferredCompressionAlgorithms with the key flags
\* and preferences of the primary certification, and neither IsPrimary nor
\* RevocationKey, also when the KeyDetails has a revocation key.
C2_OtherHashedSubpackets ==
    result = "ok" =>
        \A i \in 2..Len(output[1].users) :
            LET h == Hashed(output[1], i)
                prim == Hashed(output[1], 1)
            IN  /\ Tags(h) = << "SignatureCreationTime", "KeyFlags",
                                "PreferredSymmetricAlgorithms",
                                "PreferredHashAlgorithms",
                                "PreferredCompressionAlgorithms" >>
                /\ \A j \in 2..5 : h[j].body = prim[j + 1].body
                /\ ~HasTag(h, "IsPrimary")
                /\ ~HasTag(h, "RevocationKey")

C2_Witness ==
    /\ result = "ok"
    /\ Len(output[1].users) = 3
    /\ details.revocation_key # None
    /\ HasTag(Hashed(output[1], 1), "RevocationKey")

\* C3: every user id certification built by sign, primary or not, has type
\* CertGeneric, the public-key algorithm of the signing key, and as unhashed
\* subpackets exactly Issuer (the key id of the signing key) followed by
\* IssuerFingerprint (its fingerprint); neither of the two is in the hashed area.
C3_TypeAndUnhashedSubpackets ==
    \A u \in {users[i] : i \in 1..Len(users)} \cup {collected[i] : i \in 1..Len(collected)} :
        LET cfg == u.signatures[1].config
        IN  /\ cfg.typ = "CertGeneric"
            /\ cfg.pub_alg = key.algorithm
            /\ Len(cfg.unhashed_subpackets) = 2
            /\ cfg.unhashed_subpackets[1] = [tag |-> "Issuer", body |-> key.key_id[1]]
            /\ cfg.unhashed_subpackets[2] =
                   [tag |-> "IssuerFingerprint", body |-> key.fingerprint]
            /\ ~HasTag(cfg.hashed_subpackets, "Issuer")
            /\ ~HasTag(cfg.hashed_subpackets, "IssuerFingerprint")

C3_Witness ==
    /\ result = "ok"
    /\ Len(output[1].users) >= 2
    /\ Len(Unhashed(output[1], 1)) = 2
    /\ Len(Unhashed(output[1], 2)) = 2

\* C4: a certification that fails to build or to sign is the last one
\* attempted, the call ends with an error and no SignedKeyDetails is handed
\* out, whatever had been certified before.
C4_FailureAbortsBuild ==
    \A i \in 1..Len(attempts) :
        attempts[i].outcome # "ok" =>
            /\ i = Len(attempts)
            /\ pc = "done"
            /\ result = "err"
            /\ output = None

C4_Witness ==
    /\ result = "err"
    /\ output = None
    /\ Len(attempts) >= 3
    /\ attempts[1].outcome = "ok"
    /\ attempts[2].outcome = "ok"
    /\ attempts[Len(attempts)].outcome # "ok"

IsMarkedPrimary(skd, i) ==
    \E j \in 1..Len(Hashed(skd, i)) :
        /\ Hashed(skd, i)[j].tag = "IsPrimary"
        /\ Hashed(skd, i)[j].body = TRUE

\* C5: every SignedKeyDetails returned by sign has at least one user and
\* exactly one user whose certification carries IsPrimary(true).
C5_ExactlyOnePrimary ==
    result = "ok" =>
        /\ Len(output[1].users) >= 1
        /\ Cardinality({i \in 1..Len(output[1].users) : IsMarkedPrimary(output[1], i)}) = 1

C5_Witness ==
    /\ result = "ok"
    /\ Len(output[1].users) = 3
    /\ IsMarkedPrimary(output[1], 1)

\* C6: with a signing key that has no key id the call panics: it returns
\* neither Ok nor Err, and no certification was built or signed before.
C6_MissingKeyIdPanics ==
    (key.key_id = None /\ pc # "primary") =>
        /\ result = "panic"
        /\ pc = "done"
        /\ output = None
        /\ attempts = <<>>
        /\ users = <<>>

C6_Witness ==
    /\ key.key_id = None
    /\ result = "panic"
    /\ attempts = <<>>

\* C10: when sign succeeds, users is the primary user id followed by the
\* additional user ids in input order, each with the one certification made
\* over it; user_attributes are the input attributes in input order; the
\* revocation and direct signatures are empty.
C10_OutputFrame ==
    result = "ok" =>
        LET skd == output[1]
            ids == <<details.primary_user_id>> \o details.user_ids
        IN  /\ Len(skd.users) = 1 + Len(details.user_ids)
            /\ \A i \in 1..Len(skd.users) :
                   /\ skd.users[i].id = ids[i]
                   /\ Len(skd.users[i].signatures) = 1
                   /\ skd.users[i].signatures[1].over = ids[i]
                   /\ skd.users[i].signatures[1].tag = "UserId"
            /\ Len(skd.user_attributes) = Len(details.user_attributes)
            /\ \A j \in 1..Len(skd.user_attributes) :
                   /\ skd.user_attributes[j].attr = details.user_attributes[j]
                   /\ Len(skd.user_attributes[j].signatures) = 1
            /\ skd.revocation_signatures = <<>>
            /\ skd.direct_signatures = <<>>

C10_Witness ==
    /\ result = "ok"
    /\ details.primary_user_id = "alice"
    /\ details.user_ids = <<"bob", "alice">>
    /\ details.user_attributes = <<"image2", "image1">>
    /\ Len(output[1].users) = 3
    /\ Len(output[1].user_attributes) = 2

(***************************************************************************)
(* Properties of PublicParams, checked under SpecParams.                   *)
(***************************************************************************)
\* C7: the serialization of a PublicParams::ECDH value is the OID length, the
\* OID, the point MPI and then, as its last four octets, 0x03, 0x01, the id of
\* the value's hash algorithm and the id of its symmetric algorithm; for
\* Curve25519, SHA256, AES128 the last four octets are 03 01 08 07.
C7_EcdhKdfTrailer ==
    (ppc = "serialized" /\ params.variant = "ECDH") =>
        LET n == Len(written)
            o == oid(params.curve)
        IN  /\ n = 1 + Len(o) + 2 + Len(params.p) + 4
            /\ written[1] = Len(o)
            /\ SubSeq(written, 2, 1 + Len(o)) = o
            /\ SubSeq(written, 4 + Len(o), n - 4) = params.p
            /\ written[n - 3] = 3
            /\ written[n - 2] = 1
            /\ written[n - 1] = HashAlgorithmAsU8(params.hash)
            /\ written[n] = SymmetricKeyAlgorithmAsU8(params.alg_sym)
            /\ (params.curve = "Curve25519" /\ params.hash = "SHA256"
                    /\ params.alg_sym = "AES128") =>
                   SubSeq(written, n - 3, n) = <<3, 1, 8, 7>>

C7_Witness ==
    /\ ppc = "serialized"
    /\ params.variant = "ECDH"
    /\ params.curve = "Curve25519"
    /\ params.hash = "SHA256"
    /\ params.alg_sym = "AES128"
    /\ SubSeq(written, Len(written) - 3, Len(written)) = <<3, 1, 8, 7>>

\* C8: the serialization of an RSA, DSA or Elgamal value is nothing but
\* consecutive MPIs, one per field, in the order n, e for RSA, p, q, g, y for
\* DSA and p, g, y for Elgamal.
C8_MpisInFieldOrder ==
    ppc = "serialized" =>
        /\ params.variant = "RSA" =>
               read_mpis(written) = <<params.n, params.e>>
        /\ params.variant = "DSA" =>
               read_mpis(written) = <<params.p, params.q, params.g, params.y>>
        /\ params.variant = "Elgamal" =>
               read_mpis(written) = <<params.p, params.g, params.y>>

C8_Witness ==
    /\ ppc = "serialized"
    /\ params = [variant |-> "DSA", p |-> 65536, q |-> 256, g |-> 1, y |-> 255]
    /\ written = <<0, 17, 1, 0, 0,  0, 9, 1, 0,  0, 1, 1,  0, 8, 255>>

\* what {:?} shows for the field `label` of the value v: BigUint fields as
\* the hex of their big-endian bytes, points as the hex of their octets,
\* enums by name
Shown(v, label) ==
    IF label \in {"curve", "hash", "alg_sym"} THEN v[label]
    ELSE IF v.variant \in {"RSA", "DSA", "Elgamal"}
         THEN hex_encode(to_bytes_be(v[label]))
         ELSE hex_encode(v[label])

\* C9: the debug formatting of a PublicParams value shows under every label
\* the value of the field of that name; for DSA "g" shows g and "y" shows y.
C9_DebugRealNames ==
    debug # None =>
        \A i \in 1..Len(debug[1].fields) :
            debug[1].fields[i].value = Shown(params, debug[1].fields[i].label)
====
